---- MODULE Spec2Model ----
(***************************************************************************)
(* Conway's Game of Life on a bounded, non-wrapping terminal grid          *)
(* (life.py): the Board class, the two seeding strategies and the          *)
(* simulation loop of main.                                                *)
(*                                                                         *)
(* Python lists are objects: game.board and game.next_board are lists of   *)
(* references to row objects.  The heap maps a row identity to the row's   *)
(* cells, so that sharing of rows between the two boards is visible.       *)
(* Coordinates are zero-indexed as in the source; TLA+ sequences are       *)
(* one-indexed, hence the +1 at every access.                              *)
(***************************************************************************)
EXTENDS Integers, Sequences, FiniteSets, TLC

(***************************************************************************)
(* Bounds of the model.                                                    *)
(***************************************************************************)
MaxRows == 2      \* random mode: terminal rows are drawn from 1..MaxRows
MaxCols == 3      \* random mode: terminal cols are drawn from 1..MaxCols
MaxSeedRows == 2  \* interactive mode and Board(...) alone: rows in 1..MaxSeedRows
MaxSeedCols == 2  \* interactive mode and Board(...) alone: cols in 1..MaxSeedCols
MaxSelect == 3    \* Select events accepted during interactive seeding
MaxSeedLen == 2   \* length of the seed lists Board(...) alone is given
MaxCounter == 4   \* ticks the simulation loop is followed for
MaxDim == 3       \* neighbourhood functions alone: rows, cols in 1..MaxDim

(***************************************************************************)
(* Program constants.                                                      *)
(***************************************************************************)
DEAD == "_"
ALIVE == "#"      \* the source's glyph is the full block U+2588

None == <<>>

\* As KEY_MOVEMENT_MAP, with the k key bound to the north-west.
KEY_MOVEMENT_MAP_k_as_nw ==
    (107 :> "nw") @@ (259 :> "n") @@
    (106 :> "s") @@ (258 :> "s") @@
    (104 :> "w") @@ (260 :> "w") @@
    (108 :> "e") @@ (261 :> "e")

\* Keys are the codes getch returns: ord("k") = 107, ord("j") = 106,
\* ord("h") = 104, ord("l") = 108, and the curses codes KEY_DOWN = 258,
\* KEY_UP = 259, KEY_LEFT = 260, KEY_RIGHT = 261.
KEY_MOVEMENT_MAP ==
    (107 :> "n") @@ (259 :> "n") @@
    (106 :> "s") @@ (258 :> "s") @@
    (104 :> "w") @@ (260 :> "w") @@
    (108 :> "e") @@ (261 :> "e")

\* As DIRECTIONAL_MAP, with the offset of "sw" mistyped as that of "se".
DIRECTIONAL_MAP_sw_as_se ==
    [nw |-> <<-1, -1>>, n |-> <<-1, 0>>, ne |-> <<-1, 1>>,
     w  |-> <<0, -1>>,                   e  |-> <<0, 1>>,
     sw |-> <<1, 1>>,   s |-> <<1, 0>>,  se |-> <<1, 1>>]

DIRECTIONAL_MAP ==
    [nw |-> <<-1, -1>>, n |-> <<-1, 0>>, ne |-> <<-1, 1>>,
     w  |-> <<0, -1>>,                   e  |-> <<0, 1>>,
     sw |-> <<1, -1>>,  s |-> <<1, 0>>,  se |-> <<1, 1>>]

Directions == <<"nw", "n", "ne", "w", "e", "sw", "s", "se">>

VARIABLES
    pc,         \* position of the program
    is_random,  \* main: sys.argv[1] == "random"
    rows,       \* get_rows_cols(screen)[0]
    cols,       \* get_rows_cols(screen)[1]
    curr_xy,    \* get_user_board_seed: cursor
    seed,       \* the list a seeding strategy builds and returns
    screen,     \* coordinates the terminal shows as ALIVE
    game,       \* the Board instance
    heap,       \* row identity -> cells of that row object
    counter,    \* main: tick counter
    i,          \* main: row index of the cell loop
    j,          \* main: column index of the cell loop
    err,        \* exception that ended the program, or "none"
    exit_code,  \* process exit status, -1 while running
    score,      \* the score printed at game over, -1 if none
    arg,        \* inputs of a function applied on its own
    result,     \* what that function returned
    pre_tick,      \* history: the cells of game.board when the current tick began
    ticks_done,    \* history: the number of ticks committed
    changed_ticks, \* history: the committed ticks whose grid differs from pre_tick
    was_over       \* history: game.is_over at the start of the current tick

vars == <<pc, is_random, rows, cols, curr_xy, seed, screen, game, heap,
          counter, i, j, err, exit_code, score, arg, result, pre_tick,
          ticks_done, changed_ticks, was_over>>

(***************************************************************************)
(* Helpers for sequences and the heap.                                     *)
(***************************************************************************)
Range(s) == {s[k] : k \in DOMAIN s}

Restrict(h, ids) == [id \in (DOMAIN h) \cap ids |-> h[id]]

\* The n smallest row identities that no live object uses.
RECURSIVE AllocRows(_, _)
AllocRows(used, n) ==
    IF n = 0 THEN <<>>
    ELSE LET id == CHOOSE x \in 1..(Cardinality(used) + 1) :
                       /\ x \notin used
                       /\ \A y \in 1..(x - 1) : y \in used
         IN  <<id>> \o AllocRows(used \cup {id}, n - 1)

\* Rows no longer referenced by the Board are reclaimed.
Collect(h, g) == Restrict(h, Range(g.board) \cup Range(g.next_board))

NoGame ==
    [rows |-> 0, cols |-> 0, seed |-> <<>>, board |-> <<>>,
     next_board |-> <<>>, is_over |-> FALSE]

(***************************************************************************)
(* class Board                                                             *)
(***************************************************************************)
\* Python list indexing: an index in -len..len-1 is valid, negative ones
\* count from the end; anything else raises IndexError.
ValidIndex(k, len) == -len <= k /\ k < len

PyIndex(k, len) == IF k < 0 THEN k + len ELSE k

\* Lines 56-57: a blank board of fresh rows.
BlankRows(h, rows_, cols_) ==
    LET ids == AllocRows(DOMAIN h, rows_)
    IN  [ids  |-> ids,
         heap |-> [id \in (DOMAIN h) \cup Range(ids) |->
                      IF id \in Range(ids) THEN [c \in 1..cols_ |-> DEAD]
                      ELSE h[id]]]

\* As SetSeed, but a coordinate flips its cell, so that naming a cell twice
\* leaves it DEAD.
RECURSIVE SetSeedToggle(_, _, _, _)
SetSeedToggle(h, ids, seed_, k) ==
    IF k > Len(seed_) THEN [ok |-> TRUE, heap |-> h]
    ELSE LET r == seed_[k][1]
             c == seed_[k][2]
         IN  IF ~ValidIndex(r, Len(ids)) THEN [ok |-> FALSE, heap |-> h]
             ELSE LET id == ids[PyIndex(r, Len(ids)) + 1]
                  IN  IF ~ValidIndex(c, Len(h[id]))
                      THEN [ok |-> FALSE, heap |-> h]
                      ELSE SetSeedToggle(
                               [h EXCEPT ![id][PyIndex(c, Len(h[id])) + 1] =
                                            IF @ = ALIVE THEN DEAD ELSE ALIVE],
                               ids, seed_, k + 1)

\* Lines 60-62: self.board[i][j] = ALIVE for each seed coordinate in turn.
RECURSIVE SetSeed(_, _, _, _)
SetSeed(h, ids, seed_, k) ==
    IF k > Len(seed_) THEN [ok |-> TRUE, heap |-> h]
    ELSE LET r == seed_[k][1]
             c == seed_[k][2]
         IN  IF ~ValidIndex(r, Len(ids)) THEN [ok |-> FALSE, heap |-> h]
             ELSE LET id == ids[PyIndex(r, Len(ids)) + 1]
                  IN  IF ~ValidIndex(c, Len(h[id]))
                      THEN [ok |-> FALSE, heap |-> h]
                      ELSE SetSeed([h EXCEPT ![id][PyIndex(c, Len(h[id])) + 1] = ALIVE],
                                   ids, seed_, k + 1)

\* Board.__init__: the instance and the heap holding its rows, or the
\* IndexError that leaves no instance behind.
Board(h, rows_, cols_, seed_) ==
    LET blank == BlankRows(h, rows_, cols_)
        set   == SetSeed(blank.heap, blank.ids, seed_, 1)
    IN  IF set.ok
        THEN [err  |-> "none",
              game |-> [rows |-> rows_, cols |-> cols_, seed |-> seed_,
                        board |-> blank.ids, next_board |-> <<>>,
                        is_over |-> FALSE],
              heap |-> set.heap]
        ELSE [err |-> "IndexError", game |-> NoGame, heap |-> h]

\* The cells of self.board, row by row.
Grid(self, h) == [r \in 1..Len(self.board) |-> h[self.board[r]]]

\* self.board[x][y]
CellAt(self, h, x, y) == h[self.board[x + 1]][y + 1]

\* As get_inbound_coords, with the upper bounds off by one.
get_inbound_coords_loose(self, coords, directional) ==
    LET i_mod == DIRECTIONAL_MAP[directional][1]
        j_mod == DIRECTIONAL_MAP[directional][2]
        neighbor_coords == <<coords[1] + i_mod, coords[2] + j_mod>>
    IN  IF \/ neighbor_coords[1] < 0
           \/ neighbor_coords[2] < 0
           \/ neighbor_coords[1] > self.rows
           \/ neighbor_coords[2] > self.cols
        THEN None
        ELSE neighbor_coords

\* As get_inbound_coords, with both upper bounds taken from self.rows, as
\* on a square board.
get_inbound_coords_square(self, coords, directional) ==
    LET i_mod == DIRECTIONAL_MAP[directional][1]
        j_mod == DIRECTIONAL_MAP[directional][2]
        neighbor_coords == <<coords[1] + i_mod, coords[2] + j_mod>>
    IN  IF \/ neighbor_coords[1] < 0
           \/ neighbor_coords[2] < 0
           \/ neighbor_coords[1] > self.rows - 1
           \/ neighbor_coords[2] > self.rows - 1
        THEN None
        ELSE neighbor_coords

\* Board.get_inbound_coords
get_inbound_coords(self, coords, directional) ==
    LET i_mod == DIRECTIONAL_MAP[directional][1]
        j_mod == DIRECTIONAL_MAP[directional][2]
        neighbor_coords == <<coords[1] + i_mod, coords[2] + j_mod>>
    IN  IF \/ neighbor_coords[1] < 0
           \/ neighbor_coords[2] < 0
           \/ neighbor_coords[1] > self.rows - 1
           \/ neighbor_coords[2] > self.cols - 1
        THEN None
        ELSE neighbor_coords

\* As LiveLoop, without the test that the neighbour is ALIVE.
RECURSIVE LiveLoopAny(_, _, _, _, _)
LiveLoopAny(self, h, coords, k, neighbors) ==
    IF k > Len(Directions) THEN neighbors
    ELSE LET neighbor == get_inbound_coords(self, coords, Directions[k])
         IN  IF neighbor # None
             THEN LiveLoopAny(self, h, coords, k + 1, Append(neighbors, neighbor))
             ELSE LiveLoopAny(self, h, coords, k + 1, neighbors)

\* Board.get_live_neighbors: the loop over the eight directions.
RECURSIVE LiveLoop(_, _, _, _, _)
LiveLoop(self, h, coords, k, neighbors) ==
    IF k > Len(Directions) THEN neighbors
    ELSE LET neighbor == get_inbound_coords(self, coords, Directions[k])
         IN  IF neighbor # None /\ CellAt(self, h, neighbor[1], neighbor[2]) = ALIVE
             THEN LiveLoop(self, h, coords, k + 1, Append(neighbors, neighbor))
             ELSE LiveLoop(self, h, coords, k + 1, neighbors)

get_live_neighbors(self, h, coords) == LiveLoop(self, h, coords, 1, <<>>)

(***************************************************************************)
(* Seeding                                                                 *)
(***************************************************************************)
Cells(rows_, cols_) == (0..(rows_ - 1)) \X (0..(cols_ - 1))

\* get_random_board_seed visits the cells row by row and appends the chosen
\* ones: the list of the chosen set in row-major order.
RECURSIVE RowMajor(_, _, _, _)
RowMajor(S, r, c, cols_) ==
    IF S = {} THEN <<>>
    ELSE IF c >= cols_ THEN RowMajor(S, r + 1, 0, cols_)
    ELSE IF <<r, c>> \in S
         THEN <<(<<r, c>>)>> \o RowMajor(S \ {<<r, c>>}, r, c + 1, cols_)
         ELSE RowMajor(S, r, c + 1, cols_)

\* main, lines 187-188
Init ==
    /\ pc = "start"
    /\ is_random \in BOOLEAN
    /\ rows \in 1..(IF is_random THEN MaxRows ELSE MaxSeedRows)
    /\ cols \in 1..(IF is_random THEN MaxCols ELSE MaxSeedCols)
    /\ curr_xy = <<0, 0>>
    /\ seed = <<>>
    /\ screen = {}
    /\ game = NoGame
    /\ heap = <<>>
    /\ counter = 0
    /\ i = 0
    /\ j = 0
    /\ err = "none"
    /\ exit_code = -1
    /\ score = -1
    /\ arg = <<>>
    /\ result = <<>>
    /\ pre_tick = <<>>
    /\ ticks_done = 0
    /\ changed_ticks = 0
    /\ was_over = FALSE

\* get_random_board_seed
GetRandomBoardSeed ==
    /\ pc = "start"
    /\ is_random
    /\ \E S \in SUBSET Cells(rows, cols) : seed' = RowMajor(S, 0, 0, cols)
    /\ pc' = "returned"
    /\ UNCHANGED <<is_random, rows, cols, curr_xy, screen, game, heap, counter,
                   i, j, err, exit_code, score, arg, result, pre_tick,
                   ticks_done, changed_ticks, was_over>>

\* get_user_board_seed, lines 145-153: the blank board is drawn, the cursor
\* is put at (0, 0).
UserSeedBegin ==
    /\ pc = "start"
    /\ ~is_random
    /\ curr_xy' = <<0, 0>>
    /\ seed' = <<>>
    /\ screen' = {}
    /\ pc' = "seeding"
    /\ UNCHANGED <<is_random, rows, cols, game, heap, counter, i, j, err,
                   exit_code, score, arg, result, pre_tick,
                   ticks_done, changed_ticks, was_over>>

\* The blank Board get_user_board_seed keeps for its bounds (line 146); the
\* loop calls its get_inbound_coords only, which reads rows and cols.
SeedingGame == [NoGame EXCEPT !.rows = rows, !.cols = cols]

\* Line 158: what getch returns: -1 for no key, ord("\n") = 10,
\* ord(" ") = 32, the keys of KEY_MOVEMENT_MAP, and ord("x") = 120 for the
\* keys the program does not know.
Keys == {-1, 10, 32, 120} \cup DOMAIN KEY_MOVEMENT_MAP

\* As direction_of, with north as the default of the lookup.
direction_of_default(key_pressed) ==
    IF key_pressed \in DOMAIN KEY_MOVEMENT_MAP
    THEN KEY_MOVEMENT_MAP[key_pressed]
    ELSE "n"

\* Line 167: KEY_MOVEMENT_MAP.get(key_pressed); the string "None" stands
\* for Python's None, the result for a key that is not in the map.
direction_of(key_pressed) ==
    IF key_pressed \in DOMAIN KEY_MOVEMENT_MAP
    THEN KEY_MOVEMENT_MAP[key_pressed]
    ELSE "None"

\* Lines 155-170: one pass of the seeding loop on the key read.  Select:
\* the terminal is taken to report at (x, y) the glyph last drawn there, so
\* the glyph toggles.
loop_body(xy, seed_, screen_, key_pressed) ==
    IF key_pressed = 10
    THEN [done |-> TRUE, curr_xy |-> xy, seed |-> seed_, screen |-> screen_]
    ELSE IF key_pressed = 32
    THEN [done |-> FALSE, curr_xy |-> xy, seed |-> Append(seed_, xy),
          screen |-> IF xy \in screen_ THEN screen_ \ {xy}
                     ELSE screen_ \cup {xy}]
    ELSE IF direction_of(key_pressed) # "None"
    THEN LET coords == get_inbound_coords(SeedingGame, xy,
                                          direction_of(key_pressed))
         IN  [done |-> FALSE, curr_xy |-> IF coords # None THEN coords ELSE xy,
              seed |-> seed_, screen |-> screen_]
    ELSE [done |-> FALSE, curr_xy |-> xy, seed |-> seed_, screen |-> screen_]

\* get_user_board_seed, lines 154-174: getch returns key_pressed.
Press(key_pressed) ==
    /\ pc = "seeding"
    /\ key_pressed = 32 => Len(seed) < MaxSelect
    /\ LET r == loop_body(curr_xy, seed, screen, key_pressed)
       IN  /\ pc' = IF r.done THEN "returned" ELSE "seeding"
           /\ curr_xy' = r.curr_xy
           /\ seed' = r.seed
           /\ screen' = r.screen
    /\ UNCHANGED <<is_random, rows, cols, game, heap, counter, i, j, err,
                   exit_code, score, arg, result, pre_tick,
                   ticks_done, changed_ticks, was_over>>

\* get_user_board_seed, lines 159-160 and 172-174: Confirm.
KeyNewline ==
    /\ pc = "seeding"
    /\ Press(10)

\* get_user_board_seed, lines 161-166: Select.
KeySpace ==
    /\ pc = "seeding"
    /\ Press(32)

\* get_user_board_seed, lines 167-170: a mapped directional key.
KeyDirection ==
    /\ pc = "seeding"
    /\ \E key \in DOMAIN KEY_MOVEMENT_MAP : Press(key)

\* get_user_board_seed, lines 158-170: no key (-1) or an unmapped key.
KeyOther ==
    /\ pc = "seeding"
    /\ \E key \in Keys \ ({10, 32} \cup DOMAIN KEY_MOVEMENT_MAP) : Press(key)

\* seed_initial_board.  In random mode the triple (seed, rows, cols) is
\* unpacked and the Board built.  In the default mode the value unpacked is
\* the bare seed list: unpacking fails with ValueError unless it has exactly
\* three elements, and then rows and cols are coordinate pairs, on which
\* range(rows) in Board.__init__ raises TypeError.
SeedInitialBoard ==
    /\ pc = "returned"
    /\ IF is_random
       THEN LET b == Board(<<>>, rows, cols, seed)
            IN  /\ game' = b.game
                /\ heap' = b.heap
                /\ err' = b.err
                /\ pc' = IF b.err = "none" THEN "loop" ELSE "crashed"
                /\ exit_code' = IF b.err = "none" THEN exit_code ELSE 1
       ELSE /\ err' = IF Len(seed) = 3 THEN "TypeError" ELSE "ValueError"
            /\ pc' = "crashed"
            /\ exit_code' = 1
            /\ UNCHANGED <<game, heap>>
    /\ UNCHANGED <<is_random, rows, cols, curr_xy, seed, screen, counter, i, j,
                   score, arg, result, pre_tick,
                   ticks_done, changed_ticks, was_over>>

(***************************************************************************)
(* main: the simulation loop                                               *)
(***************************************************************************)
AliveCells(g, h) ==
    {xy \in Cells(Len(g.board), g.cols) : CellAt(g, h, xy[1], xy[2]) = ALIVE}

\* As fresh_next_board, but the rows of the last next_board, by now the rows
\* of game.board, are kept and written again.
reused_next_board(g, h) ==
    IF g.next_board = <<>>
    THEN LET blank == BlankRows(Restrict(h, Range(g.board)), g.rows, g.cols)
         IN  [next_board |-> blank.ids, heap |-> blank.heap]
    ELSE [next_board |-> g.next_board, heap |-> h]

\* As fresh_next_board, with rows one cell too long.
fresh_next_board_wide(g, h) ==
    LET h0 == Restrict(h, Range(g.board))
        blank == BlankRows(h0, g.rows, g.cols + 1)
    IN  [next_board |-> blank.ids, heap |-> blank.heap]

\* Lines 197-199: the off-screen board is rebuilt from fresh rows.
fresh_next_board(g, h) ==
    LET h0 == Restrict(h, Range(g.board))
        blank == BlankRows(h0, g.rows, g.cols)
    IN  [next_board |-> blank.ids, heap |-> blank.heap]

\* As num_neighbors, but a cell named in the seed list counts itself too.
num_neighbors_seeded(g, h, coords) ==
    Len(SelectSeq(get_live_neighbors(g, h, coords),
                  LAMBDA xy : CellAt(g, h, xy[1], xy[2]) = ALIVE))
        + (IF coords \in Range(g.seed) THEN 1 ELSE 0)

\* Lines 203-209
num_neighbors(g, h, coords) ==
    Len(SelectSeq(get_live_neighbors(g, h, coords),
                  LAMBDA xy : CellAt(g, h, xy[1], xy[2]) = ALIVE))

\* As next_cell, with the overcrowding threshold off by one.
next_cell_crowd5(item, n) ==
    IF item = DEAD /\ n = 3 THEN [cell |-> ALIVE, clear |-> TRUE]
    ELSE IF item = ALIVE /\ n > 4 THEN [cell |-> DEAD, clear |-> TRUE]
    ELSE IF item = ALIVE /\ n <= 1 THEN [cell |-> DEAD, clear |-> TRUE]
    ELSE [cell |-> item, clear |-> FALSE]

\* As next_cell, with a death by isolation not clearing is_over.
next_cell_quiet_death(item, n) ==
    IF item = DEAD /\ n = 3 THEN [cell |-> ALIVE, clear |-> TRUE]
    ELSE IF item = ALIVE /\ n >= 4 THEN [cell |-> DEAD, clear |-> TRUE]
    ELSE IF item = ALIVE /\ n <= 1 THEN [cell |-> DEAD, clear |-> FALSE]
    ELSE [cell |-> item, clear |-> FALSE]

\* As next_cell, with a living cell of three neighbours dying of
\* overcrowding.
next_cell_crowd3(item, n) ==
    IF item = DEAD /\ n = 3 THEN [cell |-> ALIVE, clear |-> TRUE]
    ELSE IF item = ALIVE /\ n >= 3 THEN [cell |-> DEAD, clear |-> TRUE]
    ELSE IF item = ALIVE /\ n <= 1 THEN [cell |-> DEAD, clear |-> TRUE]
    ELSE [cell |-> item, clear |-> FALSE]

\* As next_cell, with a birth that leaves is_over alone.
next_cell_quiet_birth(item, n) ==
    IF item = DEAD /\ n = 3 THEN [cell |-> ALIVE, clear |-> FALSE]
    ELSE IF item = ALIVE /\ n >= 4 THEN [cell |-> DEAD, clear |-> TRUE]
    ELSE IF item = ALIVE /\ n <= 1 THEN [cell |-> DEAD, clear |-> TRUE]
    ELSE [cell |-> item, clear |-> FALSE]

\* As next_cell, with a living cell of two neighbours dying of isolation.
next_cell_lonely2(item, n) ==
    IF item = DEAD /\ n = 3 THEN [cell |-> ALIVE, clear |-> TRUE]
    ELSE IF item = ALIVE /\ n >= 4 THEN [cell |-> DEAD, clear |-> TRUE]
    ELSE IF item = ALIVE /\ n <= 2 THEN [cell |-> DEAD, clear |-> TRUE]
    ELSE [cell |-> item, clear |-> FALSE]

\* Lines 211-224: the value written to next_board and whether is_over is
\* cleared.
next_cell(item, n) ==
    IF item = DEAD /\ n = 3 THEN [cell |-> ALIVE, clear |-> TRUE]
    ELSE IF item = ALIVE /\ n >= 4 THEN [cell |-> DEAD, clear |-> TRUE]
    ELSE IF item = ALIVE /\ n <= 1 THEN [cell |-> DEAD, clear |-> TRUE]
    ELSE [cell |-> item, clear |-> FALSE]

\* Lines 192-199: the loop body up to the cell loop.
TickStart ==
    /\ pc = "loop"
    /\ counter < MaxCounter
    /\ counter' = counter + 1
    /\ screen' = AliveCells(game, heap)
    /\ LET nb == fresh_next_board(game, heap)
       IN  /\ game' = [game EXCEPT !.is_over = TRUE, !.next_board = nb.next_board]
           /\ heap' = nb.heap
    /\ i' = 0
    /\ j' = 0
    /\ pc' = "cells"
    /\ pre_tick' = Grid(game, heap)
    /\ was_over' = game.is_over
    /\ UNCHANGED <<is_random, rows, cols, curr_xy, seed, err, exit_code, score,
                   arg, result, ticks_done, changed_ticks>>

\* Lines 191-199: the loop test passes, the tick starts.
TickBegin ==
    /\ ~game.is_over
    /\ TickStart

\* Lines 202-224: the body of the cell loop at (i_, j_).
cell_step(g, h, i_, j_) ==
    LET item == h[g.board[i_ + 1]][j_ + 1]
        nc == next_cell(item, num_neighbors(g, h, <<i_, j_>>))
    IN  [game |-> [g EXCEPT !.is_over = IF nc.clear THEN FALSE ELSE @],
         heap |-> [h EXCEPT ![g.next_board[i_ + 1]][j_ + 1] = nc.cell]]

\* Line 227: game.board = game.next_board.copy(), a new list of the same
\* row objects; the rows of the old board are dropped.
commit_board(g, h) ==
    LET g2 == [g EXCEPT !.board = g.next_board]
    IN  [game |-> g2, heap |-> Collect(h, g2)]

\* Lines 201-224: the cell loop from (i_, j_) to its end.
RECURSIVE cell_loop(_, _, _, _)
cell_loop(g, h, i_, j_) ==
    LET s == cell_step(g, h, i_, j_)
    IN  IF j_ + 1 < Len(h[g.board[i_ + 1]])
        THEN cell_loop(s.game, s.heap, i_, j_ + 1)
        ELSE IF i_ + 1 < Len(g.board)
        THEN cell_loop(s.game, s.heap, i_ + 1, 0)
        ELSE s

\* Lines 193-227: one pass of the loop body, as a function of the Board.
run_tick(g, h) ==
    LET nb == fresh_next_board(g, h)
        g1 == [g EXCEPT !.is_over = TRUE, !.next_board = nb.next_board]
        r  == cell_loop(g1, nb.heap, 0, 0)
    IN  commit_board(r.game, r.heap)

\* Lines 201-224: one iteration of the cell loop, at (i, j).
TickCell ==
    /\ pc = "cells"
    /\ LET s == cell_step(game, heap, i, j)
       IN  /\ heap' = s.heap
           /\ game' = s.game
    /\ IF j + 1 < Len(heap[game.board[i + 1]])
       THEN /\ j' = j + 1
            /\ UNCHANGED <<i, pc>>
       ELSE IF i + 1 < Len(game.board)
       THEN /\ i' = i + 1
            /\ j' = 0
            /\ UNCHANGED pc
       ELSE /\ pc' = "commit"
            /\ UNCHANGED <<i, j>>
    /\ UNCHANGED <<is_random, rows, cols, curr_xy, seed, screen, counter, err,
                   exit_code, score, arg, result, pre_tick,
                   ticks_done, changed_ticks, was_over>>

\* Lines 226-228: the board is replaced, the loop test comes next.
TickCommit ==
    /\ pc = "commit"
    /\ LET c == commit_board(game, heap)
       IN  /\ game' = c.game
           /\ heap' = c.heap
    /\ pc' = "loop"
    /\ ticks_done' = ticks_done + 1
    /\ changed_ticks' =
          IF Grid(game', heap') # pre_tick THEN changed_ticks + 1 ELSE changed_ticks
    /\ UNCHANGED <<is_random, rows, cols, curr_xy, seed, screen, counter, i, j,
                   err, exit_code, score, arg, result, pre_tick, was_over>>

\* As final_score, counting from zero.
final_score_zero_based(counter_) == counter_ - 1

\* Line 231: the number printed as the score.
final_score(counter_) == counter_

\* Lines 191 and 230-233: the loop test fails, the score is printed.
GameOver ==
    /\ pc = "loop"
    /\ game.is_over
    /\ score' = final_score(counter)
    /\ exit_code' = 0
    /\ pc' = "exited"
    /\ UNCHANGED <<is_random, rows, cols, curr_xy, seed, screen, game, heap,
                   counter, i, j, err, arg, result, pre_tick,
                   ticks_done, changed_ticks, was_over>>

Next ==
    \/ GetRandomBoardSeed
    \/ UserSeedBegin
    \/ KeyNewline
    \/ KeySpace
    \/ KeyDirection
    \/ KeyOther
    \/ SeedInitialBoard
    \/ TickBegin
    \/ TickCell
    \/ TickCommit
    \/ GameOver

Spec == Init /\ [][Next]_vars

(***************************************************************************)
(* The program under an interrupt signal (lines 236-240).                  *)
(***************************************************************************)
\* As on_exception, with no handler for KeyboardInterrupt.
on_exception_uncaught(exc) == 1

\* Lines 237-240: the exit code after exception exc leaves curses.wrapper:
\* sys.exit(0) for KeyboardInterrupt, the interpreter's 1 for any other.
on_exception(exc) == IF exc = "KeyboardInterrupt" THEN 0 ELSE 1

\* KeyboardInterrupt is raised in main or in a function it called: the
\* frames are unwound and their objects dropped, curses.wrapper restores
\* the terminal, the handler of line 239 exits.
Interrupt ==
    /\ pc \in {"start", "seeding", "returned", "loop", "cells", "commit"}
    /\ pc' = "interrupted"
    /\ err' = "KeyboardInterrupt"
    /\ exit_code' = on_exception("KeyboardInterrupt")
    /\ game' = NoGame
    /\ heap' = <<>>
    /\ seed' = <<>>
    /\ curr_xy' = <<0, 0>>
    /\ screen' = {}
    /\ i' = 0
    /\ j' = 0
    /\ pre_tick' = <<>>
    /\ UNCHANGED <<is_random, rows, cols, counter, score, arg, result,
                   ticks_done, changed_ticks, was_over>>

NextInt ==
    \/ Next
    \/ Interrupt

SpecInt == Init /\ [][NextInt]_vars

(***************************************************************************)
(* The default mode alone, with the bounds of Board(...) alone.            *)
(***************************************************************************)
InitSeed ==
    /\ Init
    /\ ~is_random

NextSeed ==
    \/ UserSeedBegin
    \/ KeyNewline
    \/ KeySpace
    \/ KeyDirection
    \/ KeyOther
    \/ SeedInitialBoard

SpecSeed == InitSeed /\ [][NextSeed]_vars

(***************************************************************************)
(* The loop body of main, lines 192-227, applied again and again to the    *)
(* board of a random seed, whatever the tick before reported.              *)
(***************************************************************************)
InitTick ==
    /\ Init
    /\ is_random

NextTick ==
    \/ GetRandomBoardSeed
    \/ SeedInitialBoard
    \/ TickStart
    \/ TickCell
    \/ TickCommit

SpecTick == InitTick /\ [][NextTick]_vars

(***************************************************************************)
(* The simulation loop on the 8 x 8 board of the tests, seeded with the    *)
(* vertical blinker: a run of the random mode that drew this seed.         *)
(***************************************************************************)
ScenarioSize == 8

BlinkerSeed == <<(<<0, 2>>), (<<1, 2>>), (<<2, 2>>)>>

InitBlinker ==
    /\ pc = "returned"
    /\ is_random = TRUE
    /\ rows = ScenarioSize
    /\ cols = ScenarioSize
    /\ seed = BlinkerSeed
    /\ curr_xy = <<0, 0>>
    /\ screen = {}
    /\ game = NoGame
    /\ heap = <<>>
    /\ counter = 0
    /\ i = 0
    /\ j = 0
    /\ err = "none"
    /\ exit_code = -1
    /\ score = -1
    /\ arg = <<>>
    /\ result = <<>>
    /\ pre_tick = <<>>
    /\ ticks_done = 0
    /\ changed_ticks = 0
    /\ was_over = FALSE

NextBlinker ==
    \/ SeedInitialBoard
    \/ TickBegin
    \/ TickCell
    \/ TickCommit

SpecBlinker == InitBlinker /\ [][NextBlinker]_vars

(***************************************************************************)
(* Board(rows, cols, seed) applied on its own to arbitrary seed lists,     *)
(* coordinates out of range included.                                      *)
(***************************************************************************)
\* Sequences over S of length at most n.
RECURSIVE SeqsUpTo(_, _)
SeqsUpTo(S, n) ==
    IF n = 0 THEN {<<>>}
    ELSE LET shorter == SeqsUpTo(S, n - 1)
         IN  shorter \cup {Append(q, x) : q \in shorter, x \in S}

\* One index of every kind Python list indexing tells apart on a list of
\* length len: below -len, -len, -1, 0, len - 1, len.  Up to len = 2 these
\* are all the indices from -(len + 1) to len.
IndexSamples(len) == {-(len + 1), -len, -1, 0, len - 1, len}

SeedCoords(rows_, cols_) == IndexSamples(rows_) \X IndexSamples(cols_)

InitBoard ==
    /\ pc = "call_Board"
    /\ \E r \in 1..MaxSeedRows, c \in 1..MaxSeedCols :
          \E s \in SeqsUpTo(SeedCoords(r, c), MaxSeedLen) :
             arg = [rows |-> r, cols |-> c, seed |-> s]
    /\ is_random = FALSE
    /\ rows = 0
    /\ cols = 0
    /\ curr_xy = <<0, 0>>
    /\ seed = <<>>
    /\ screen = {}
    /\ game = NoGame
    /\ heap = <<>>
    /\ counter = 0
    /\ i = 0
    /\ j = 0
    /\ err = "none"
    /\ exit_code = -1
    /\ score = -1
    /\ result = <<>>
    /\ pre_tick = <<>>
    /\ ticks_done = 0
    /\ changed_ticks = 0
    /\ was_over = FALSE

\* Board.__init__
CallBoard ==
    /\ pc = "call_Board"
    /\ LET b == Board(heap, arg.rows, arg.cols, arg.seed)
       IN  /\ game' = b.game
           /\ heap' = b.heap
           /\ err' = b.err
    /\ pc' = "done_Board"
    /\ UNCHANGED <<is_random, rows, cols, curr_xy, seed, screen, counter, i, j,
                   exit_code, score, arg, result, pre_tick,
                   ticks_done, changed_ticks, was_over>>

NextBoard == CallBoard

SpecBoard == InitBoard /\ [][NextBoard]_vars

(***************************************************************************)
(* The neighbourhood functions applied on their own, on grids of every     *)
(* size up to MaxDim x MaxDim.                                             *)
(***************************************************************************)
\* Board.get_live_neighbors, lines 82-84: the in-bound neighbours in the
\* order of the direction list, before the test of the cell.
RECURSIVE InboundLoop(_, _, _, _)
InboundLoop(self, coords, k, neighbors) ==
    IF k > Len(Directions) THEN neighbors
    ELSE LET neighbor == get_inbound_coords(self, coords, Directions[k])
         IN  IF neighbor # None
             THEN InboundLoop(self, coords, k + 1, Append(neighbors, neighbor))
             ELSE InboundLoop(self, coords, k + 1, neighbors)

inbound_neighbors(self, coords) == InboundLoop(self, coords, 1, <<>>)

InitNbr ==
    /\ pc = "call_nbr"
    /\ rows \in 1..MaxDim
    /\ cols \in 1..MaxDim
    /\ \E xy \in Cells(rows, cols), d \in Range(Directions) :
          arg = [coords |-> xy, directional |-> d]
    /\ game = Board(<<>>, rows, cols, <<>>).game
    /\ heap = Board(<<>>, rows, cols, <<>>).heap
    /\ is_random = FALSE
    /\ curr_xy = <<0, 0>>
    /\ seed = <<>>
    /\ screen = {}
    /\ counter = 0
    /\ i = 0
    /\ j = 0
    /\ err = "none"
    /\ exit_code = -1
    /\ score = -1
    /\ result = <<>>
    /\ pre_tick = <<>>
    /\ ticks_done = 0
    /\ changed_ticks = 0
    /\ was_over = FALSE

\* Board.get_inbound_coords
CallInboundCoords ==
    /\ pc = "call_nbr"
    /\ result' = get_inbound_coords(game, arg.coords, arg.directional)
    /\ pc' = "done_inbound"
    /\ UNCHANGED <<is_random, rows, cols, curr_xy, seed, screen, game, heap,
                   counter, i, j, err, exit_code, score, arg, pre_tick,
                   ticks_done, changed_ticks, was_over>>

\* The eight calls of get_inbound_coords made by Board.get_live_neighbors
CallNeighbors ==
    /\ pc = "call_nbr"
    /\ result' = inbound_neighbors(game, arg.coords)
    /\ pc' = "done_neighbors"
    /\ UNCHANGED <<is_random, rows, cols, curr_xy, seed, screen, game, heap,
                   counter, i, j, err, exit_code, score, arg, pre_tick,
                   ticks_done, changed_ticks, was_over>>

NextNbr ==
    \/ CallInboundCoords
    \/ CallNeighbors

SpecNbr == InitNbr /\ [][NextNbr]_vars

(***************************************************************************)
(* Properties.  The grid is described here by coordinates alone,           *)
(* independently of the program's own neighbour functions.                 *)
(***************************************************************************)
\* The cells next to xy on a rows_ x cols_ grid that does not wrap around.
Adjacent(xy, rows_, cols_) ==
    {n \in ((xy[1] - 1)..(xy[1] + 1)) \X ((xy[2] - 1)..(xy[2] + 1)) :
        /\ n # xy
        /\ 0 <= n[1] /\ n[1] < rows_
        /\ 0 <= n[2] /\ n[2] < cols_}

GridCell(grid, xy) == grid[xy[1] + 1][xy[2] + 1]

GridCells(grid) == Cells(Len(grid), IF Len(grid) = 0 THEN 0 ELSE Len(grid[1]))

LiveCount(grid, xy) ==
    Cardinality({n \in Adjacent(xy, Len(grid), Len(grid[1])) :
                    GridCell(grid, n) = ALIVE})

\* A tick has been committed and the loop test is next, or has just failed.
TickDone == pc \in {"loop", "exited"} /\ counter > 0

\* C1: one tick sets every cell from its state and its number n of Alive
\* neighbours in the pre-tick grid: Dead with n = 3 becomes Alive, Alive
\* with n >= 4 or n <= 1 becomes Dead, every other cell keeps its state.
C1_TickRule ==
    TickDone =>
        \A xy \in GridCells(pre_tick) :
            LET was == GridCell(pre_tick, xy)
                n   == LiveCount(pre_tick, xy)
                now == CellAt(game, heap, xy[1], xy[2])
            IN  /\ (was = DEAD /\ n = 3) => now = ALIVE
                /\ (was = ALIVE /\ n >= 4) => now = DEAD
                /\ (was = ALIVE /\ n <= 1) => now = DEAD
                /\ (was = ALIVE /\ n \in {2, 3}) => now = ALIVE
                /\ (was = DEAD /\ n # 3) => now = DEAD

\* A committed tick in which a cell was born, one died of overcrowding and
\* one survived.
C1_Witness ==
    /\ TickDone
    /\ \E a, b, d \in GridCells(pre_tick) :
          /\ GridCell(pre_tick, a) = DEAD /\ LiveCount(pre_tick, a) = 3
          /\ GridCell(Grid(game, heap), a) = ALIVE
          /\ GridCell(pre_tick, b) = ALIVE /\ LiveCount(pre_tick, b) >= 4
          /\ GridCell(Grid(game, heap), b) = DEAD
          /\ GridCell(pre_tick, d) = ALIVE /\ LiveCount(pre_tick, d) \in {2, 3}
          /\ GridCell(Grid(game, heap), d) = ALIVE

\* C2: during a tick the grid being read is the pre-tick grid, untouched:
\* next_board consists of rows of its own, so no write of this tick, in
\* the first tick or in a later one, reaches a row of game.board.
C2_ReadsPreTickGrid ==
    pc \in {"cells", "commit"} =>
        /\ Grid(game, heap) = pre_tick
        /\ Range(game.board) \cap Range(game.next_board) = {}
        /\ Len(game.next_board) = Len(game.board)

\* A later tick, all cells written, the new grid differing from the one read.
C2_Witness ==
    /\ pc = "commit"
    /\ counter >= 2
    /\ [r \in 1..Len(game.next_board) |-> heap[game.next_board[r]]] # pre_tick
    /\ Grid(game, heap) = pre_tick

\* C3: a committed tick leaves is_over True exactly when the new grid equals
\* the pre-tick grid; the loop goes on to another tick only when the last
\* tick changed a cell, and ends only after a tick that changed none.
C3_OverIffUnchanged ==
    [][/\ (pc = "commit" /\ pc' = "loop") =>
            (game'.is_over <=> Grid(game', heap') = pre_tick)
       /\ (pc = "loop" /\ pc' = "cells") =>
            (counter = 0 \/ Grid(game, heap) # pre_tick)
       /\ (pc = "loop" /\ pc' = "exited") =>
            (counter > 0 /\ Grid(game, heap) = pre_tick)]_vars

\* The loop has ended after a tick that changed cells and one that did not.
C3_Witness ==
    /\ pc = "exited"
    /\ counter >= 2
    /\ game.is_over

InBounds(xy, rows_, cols_) == xy \in Cells(rows_, cols_)

SeedInBounds(seed_, rows_, cols_) ==
    \A k \in DOMAIN seed_ : InBounds(seed_[k], rows_, cols_)

\* C4: Board(rows, cols, seed) with a seed coordinate outside
\* [0,rows) x [0,cols), a negative index included, is rejected with an
\* error and yields no Board.
C4_RejectsOutOfRange ==
    (pc = "done_Board" /\ ~SeedInBounds(arg.seed, arg.rows, arg.cols)) =>
        (err # "none" /\ game = NoGame)

\* C5: for a seed list with every coordinate in bounds, in any order, with
\* or without duplicates, Board(rows, cols, seed) is a rows x cols grid
\* whose Alive cells are exactly the coordinates of seed, all others Dead,
\* with is_over False.
C5_BoardFromSeed ==
    (pc = "done_Board" /\ SeedInBounds(arg.seed, arg.rows, arg.cols)) =>
        /\ err = "none"
        /\ game.rows = arg.rows
        /\ game.cols = arg.cols
        /\ Len(Grid(game, heap)) = arg.rows
        /\ \A r \in 1..arg.rows : Len(Grid(game, heap)[r]) = arg.cols
        /\ \A xy \in Cells(arg.rows, arg.cols) :
              GridCell(Grid(game, heap), xy) =
                  IF xy \in Range(arg.seed) THEN ALIVE ELSE DEAD
        /\ game.is_over = FALSE

\* A Board built from an in-bounds seed that names one cell twice and
\* lists two cells out of row-major order.
C5_Witness ==
    /\ pc = "done_Board"
    /\ err = "none"
    /\ arg.seed \in {<<(<<0, 0>>), (<<0, 0>>)>>, <<(<<1, 1>>), (<<0, 1>>)>>}
    /\ GridCell(Grid(game, heap), arg.seed[1]) = ALIVE

\* How often xy occurs in the list.
RECURSIVE Occurrences(_, _)
Occurrences(seed_, xy) ==
    IF seed_ = <<>> THEN 0
    ELSE (IF Head(seed_) = xy THEN 1 ELSE 0) + Occurrences(Tail(seed_), xy)

OddSelected(seed_, rows_, cols_) ==
    {xy \in Cells(rows_, cols_) : Occurrences(seed_, xy) % 2 = 1}

\* C6: at Confirm the live set get_user_board_seed returns is the set of
\* cells selected an odd number of times, the cells the screen shows Alive,
\* and exactly those cells are Alive in the Board built from it.
C6_LiveSetIsOddSelected ==
    (pc = "returned" /\ ~is_random) =>
        /\ screen = OddSelected(seed, rows, cols)
        /\ Range(seed) = OddSelected(seed, rows, cols)
        /\ LET b == Board(<<>>, rows, cols, seed)
           IN  AliveCells(b.game, b.heap) = OddSelected(seed, rows, cols)

\* C7: in either mode seed_initial_board returns a Board of the terminal's
\* rows x cols holding the live set of the seeding strategy; it never fails.
C7_SeedInitialBoardReturnsBoard ==
    (pc \in {"loop", "crashed"} /\ counter = 0) =>
        /\ err = "none"
        /\ game.rows = rows
        /\ game.cols = cols
        /\ AliveCells(game, heap) = Range(seed)

\* The eight compass neighbours of xy in the order NW, N, NE, W, E, SW, S,
\* SE, in bounds or not.
Compass(xy) ==
    <<(<<xy[1] - 1, xy[2] - 1>>), (<<xy[1] - 1, xy[2]>>), (<<xy[1] - 1, xy[2] + 1>>),
      (<<xy[1], xy[2] - 1>>),                             (<<xy[1], xy[2] + 1>>),
      (<<xy[1] + 1, xy[2] - 1>>), (<<xy[1] + 1, xy[2]>>), (<<xy[1] + 1, xy[2] + 1>>)>>

IsCorner(xy, rows_, cols_) ==
    xy[1] \in {0, rows_ - 1} /\ xy[2] \in {0, cols_ - 1}

IsInterior(xy, rows_, cols_) ==
    /\ 0 < xy[1] /\ xy[1] < rows_ - 1
    /\ 0 < xy[2] /\ xy[2] < cols_ - 1

\* What every grid satisfies: the in-bound neighbours are the compass
\* neighbours that lie on the grid, in compass order, never coord itself.
NeighboursInOrder ==
    /\ result = SelectSeq(Compass(arg.coords), LAMBDA n : InBounds(n, rows, cols))
    /\ Len(result) <= 8
    /\ \A k \in DOMAIN result : InBounds(result[k], rows, cols)
    /\ \A k \in DOMAIN result : result[k] # arg.coords

\* C8 as stated: on every grid with rows >= 1 and cols >= 1 the in-bound
\* neighbours of an in-bounds coord, taken in the order NW, N, NE, W, E, SW,
\* S, SE, number between 3 and 8, 3 at a corner and 8 in the interior, all
\* lie within the grid and never include coord.
C8_ThreeToEightNeighbours ==
    pc = "done_neighbors" =>
        /\ NeighboursInOrder
        /\ 3 <= Len(result)
        /\ IsCorner(arg.coords, rows, cols) => Len(result) = 3
        /\ IsInterior(arg.coords, rows, cols) => Len(result) = 8

\* C8 amended: the count is between 3 and 8, 3 at a corner, on grids with
\* rows >= 2 and cols >= 2; a grid with a single row or a single column
\* gives at most 2 neighbours.  On every grid the neighbours are in compass
\* order, within the grid, 8 in the interior, and never include coord.
C8_NeighboursAmended ==
    pc = "done_neighbors" =>
        /\ NeighboursInOrder
        /\ IsInterior(arg.coords, rows, cols) => Len(result) = 8
        /\ (rows >= 2 /\ cols >= 2) =>
              /\ 3 <= Len(result)
              /\ IsCorner(arg.coords, rows, cols) => Len(result) = 3
        /\ (rows = 1 \/ cols = 1) => Len(result) <= 2

\* The neighbours of the interior cell of a 3 x 3 grid have been listed.
C8_Witness ==
    /\ pc = "done_neighbors"
    /\ rows = 3
    /\ cols = 3
    /\ arg.coords = <<1, 1>>
    /\ Len(result) = 8

\* C9: if some direction leads from c1 to the in-bounds c2, then some
\* direction leads from c2 back to c1.
C9_NeighbourSymmetry ==
    (pc = "done_inbound" /\ result # None) =>
        \E d \in Range(Directions) :
            get_inbound_coords(game, result, d) = arg.coords

\* get_inbound_coords has returned a neighbour from a corner of a grid that
\* is not square.
C9_Witness ==
    /\ pc = "done_inbound"
    /\ rows # cols
    /\ arg.coords = <<0, 0>>
    /\ arg.directional = "se"
    /\ result = <<1, 1>>

\* A Board has just been built or a tick committed: every grid the
\* simulation ever holds is the grid of such a state.
AtLoopTest == pc = "loop"

\* C10: get_live_neighbors(coord) lists the Alive cells among the in-bound
\* compass neighbours of coord, each once, in the order NW, N, NE, W, E, SW,
\* S, SE, never coord itself; its length is the count the tick uses.
C10_LiveNeighbours ==
    AtLoopTest =>
        LET grid == Grid(game, heap)
        IN  \A xy \in Cells(game.rows, game.cols) :
                LET live == get_live_neighbors(game, heap, xy)
                IN  /\ live = SelectSeq(Compass(xy),
                                        LAMBDA n : /\ InBounds(n, game.rows, game.cols)
                                                   /\ GridCell(grid, n) = ALIVE)
                    /\ \A k \in DOMAIN live : live[k] # xy
                    /\ \A k, m \in DOMAIN live : live[k] = live[m] => k = m
                    /\ Len(live) = LiveCount(grid, xy)
                    /\ Len(live) = num_neighbors(game, heap, xy)

\* After a tick the grid has an Alive cell with Alive and Dead neighbours.
C10_Witness ==
    /\ AtLoopTest
    /\ counter >= 1
    /\ \E xy \in Cells(game.rows, game.cols) :
          /\ CellAt(game, heap, xy[1], xy[2]) = ALIVE
          /\ Len(get_live_neighbors(game, heap, xy)) >= 2
          /\ Len(get_live_neighbors(game, heap, xy))
                < Cardinality(Adjacent(xy, game.rows, game.cols))

\* The offset of a compass direction.
Offset(d) ==
    <<(IF d \in {"nw", "n", "ne"} THEN -1 ELSE IF d \in {"sw", "s", "se"} THEN 1 ELSE 0),
      (IF d \in {"nw", "w", "sw"} THEN -1 ELSE IF d \in {"ne", "e", "se"} THEN 1 ELSE 0)>>

\* C11: get_inbound_coords((i, j), d) is (i + di, j + dj) when that lies
\* within [0, rows) x [0, cols) of this Board, rows and cols being the
\* instance's own, square or not, and None otherwise.
C11_InboundCoords ==
    pc = "done_inbound" =>
        LET target == <<arg.coords[1] + Offset(arg.directional)[1],
                        arg.coords[2] + Offset(arg.directional)[2]>>
        IN  /\ game.rows = rows
            /\ game.cols = cols
            /\ result = IF /\ 0 <= target[1] /\ target[1] < rows
                           /\ 0 <= target[2] /\ target[2] < cols
                        THEN target
                        ELSE None

\* On a 3 x 2 grid the east neighbour of (0, 1) is refused although column
\* 2 would exist on a 3 x 3 grid.
C11_Witness ==
    /\ pc = "done_inbound"
    /\ rows = 3
    /\ cols = 2
    /\ arg.coords = <<0, 1>>
    /\ arg.directional = "e"
    /\ result = None

\* C12: from the vertical blinker on the 8 x 8 grid the grid alternates
\* with period 2 between the vertical and the horizontal blinker, every
\* tick reports a change, and is_over is never True when the loop test is
\* made, so the score is never printed.
C12_BlinkerNeverEnds ==
    /\ pc # "exited"
    /\ score = -1
    /\ pc = "loop" =>
          /\ ~game.is_over
          /\ AliveCells(game, heap) =
                IF counter % 2 = 0
                THEN {<<0, 2>>, <<1, 2>>, <<2, 2>>}
                ELSE {<<1, 1>>, <<1, 2>>, <<1, 3>>}

\* Three ticks done: vertical, horizontal, vertical, horizontal.
C12_Witness ==
    /\ pc = "loop"
    /\ counter = 3
    /\ rows = 8
    /\ AliveCells(game, heap) = {<<1, 1>>, <<1, 2>>, <<1, 3>>}
    /\ Range(seed) = {<<0, 2>>, <<1, 2>>, <<2, 2>>}

\* C13: the printed score is the number of ticks executed, the last, quiet
\* tick included: one more than the number of ticks that changed a cell,
\* hence at least 1; a fully Dead grid is over at the end of its first tick,
\* still fully Dead, with score 1.
C13_ScoreCountsTicks ==
    pc = "exited" =>
        /\ score = ticks_done
        /\ score = 1 + changed_ticks
        /\ score >= 1
        /\ (seed = <<>> =>
              /\ score = 1
              /\ AliveCells(game, heap) = {}
              /\ Len(Grid(game, heap)) = rows)

\* A fully Dead 2 x 3 grid has ended with score 1.
C13_Witness ==
    /\ pc = "exited"
    /\ seed = <<>>
    /\ rows = 2 /\ cols = 3
    /\ score = 1
    /\ ticks_done = 1
    /\ changed_ticks = 0

\* C14: when a tick reports no change the committed grid is the grid the
\* tick started from, and the tick applied to a grid whose previous tick
\* reported no change reports no change again and yields the same grid.
C14_QuietTickIdempotent ==
    (pc = "loop" /\ ticks_done >= 1) =>
        /\ (game.is_over => Grid(game, heap) = pre_tick)
        /\ (was_over => game.is_over /\ Grid(game, heap) = pre_tick)

\* A still life that is not empty, after a quiet tick applied to the result
\* of a quiet tick.
C14_Witness ==
    /\ pc = "loop"
    /\ ticks_done >= 2
    /\ was_over
    /\ game.is_over
    /\ AliveCells(game, heap) # {}
    /\ Grid(game, heap) = pre_tick

\* The tick run on a Board newly built from the cells of the grid G alone:
\* its seed list is the living cells of G, next_board is empty, no tick has
\* run before.
SecondRun(G) ==
    LET alive == {xy \in GridCells(G) : GridCell(G, xy) = ALIVE}
        b == Board(<<>>, Len(G), Len(G[1]), RowMajor(alive, 0, 0, Len(G[1])))
    IN  run_tick(b.game, b.heap)

\* C15: the next grid and is_over of every tick are those of the tick run
\* on a new Board with the same cells, so two runs from identical grids
\* agree whatever their tick counter, their seed list and the old contents
\* of next_board.
C15_TickDeterministic ==
    (pc = "loop" /\ ticks_done >= 1) =>
        LET r == SecondRun(pre_tick)
        IN  /\ Grid(game, heap) = Grid(r.game, r.heap)
            /\ game.is_over = r.game.is_over

\* A changing tick, not the first, from a grid that is not the seeded one.
C15_Witness ==
    /\ pc = "loop"
    /\ ticks_done >= 2
    /\ counter >= 2
    /\ ~game.is_over
    /\ Grid(game, heap) # pre_tick
    /\ {xy \in GridCells(pre_tick) : GridCell(pre_tick, xy) = ALIVE} # Range(seed)
    /\ Grid(game, heap) = Grid(SecondRun(pre_tick).game, SecondRun(pre_tick).heap)

\* The cell a directional key points at: k and the up arrow to the north,
\* j and the down arrow to the south, h and the left arrow to the west, l
\* and the right arrow to the east.
CardinalTarget(xy, key) ==
    IF key \in {107, 259} THEN <<xy[1] - 1, xy[2]>>
    ELSE IF key \in {106, 258} THEN <<xy[1] + 1, xy[2]>>
    ELSE IF key \in {104, 260} THEN <<xy[1], xy[2] - 1>>
    ELSE <<xy[1], xy[2] + 1>>

DirectionKeys == {104, 106, 107, 108, 258, 259, 260, 261}

\* What each directional key and Select would do to the cursor at xy.
CursorRule(xy, seed_, screen_) ==
    /\ xy \in Cells(rows, cols)
    /\ DOMAIN KEY_MOVEMENT_MAP = DirectionKeys
    /\ \A key \in DirectionKeys :
          LET r == loop_body(xy, seed_, screen_, key)
              target == CardinalTarget(xy, key)
          IN  r.curr_xy = IF target \in Cells(rows, cols) THEN target ELSE xy
    /\ loop_body(xy, seed_, screen_, 32).curr_xy = xy

\* C16: the cursor starts at (0, 0) and stays on the grid; a directional
\* key moves it one cell in its cardinal direction, never diagonally, when
\* that cell is on the grid and leaves it alone at the edge; Select never
\* moves it.
C16_Cursor ==
    [][/\ (pc = "start" /\ pc' = "seeding") => curr_xy' = <<0, 0>>
       /\ pc' = "seeding" => CursorRule(curr_xy', seed', screen')
       /\ (pc = "seeding" /\ pc' = "seeding" /\ curr_xy' # curr_xy) =>
             /\ seed' = seed
             /\ \/ curr_xy'[1] = curr_xy[1] /\ curr_xy'[2] - curr_xy[2] \in {-1, 1}
                \/ curr_xy'[2] = curr_xy[2] /\ curr_xy'[1] - curr_xy[1] \in {-1, 1}]_vars

\* The cursor has gone south and east and a cell was selected there.
C16_Witness ==
    /\ pc = "seeding"
    /\ rows = 2 /\ cols = 2
    /\ curr_xy = <<1, 1>>
    /\ seed = <<(<<1, 1>>)>>
    /\ loop_body(curr_xy, seed, screen, 108).curr_xy = curr_xy
    /\ loop_body(curr_xy, seed, screen, 107).curr_xy = <<0, 1>>

\* The events that are none of Confirm, Select or a mapped directional key.
IgnoredKeys == {-1, 120}

\* C17: an event that is not Confirm, Select or a mapped directional key
\* leaves cursor, seed list and displayed cells as they are, raises no
\* error and does not end seeding; seeding ends only on Confirm.
C17_OtherKeysIgnored ==
    [][/\ pc' = "seeding" =>
             /\ err' = "none"
             /\ IgnoredKeys \subseteq Keys
             /\ \A key \in IgnoredKeys :
                   loop_body(curr_xy', seed', screen', key) =
                       [done |-> FALSE, curr_xy |-> curr_xy', seed |-> seed',
                        screen |-> screen']
             /\ \A key \in Keys \ {10} :
                   ~loop_body(curr_xy', seed', screen', key).done
       /\ (pc = "seeding" /\ pc' # "seeding") =>
             /\ pc' = "returned"
             /\ loop_body(curr_xy, seed, screen, 10).done
             /\ <<curr_xy', seed', screen', err'>> = <<curr_xy, seed, screen, err>>]_vars

\* A seeding state off the top edge with a cell selected, on which the
\* unknown key and the absence of a key do nothing.
C17_Witness ==
    /\ pc = "seeding"
    /\ curr_xy = <<1, 0>>
    /\ seed = <<(<<0, 0>>)>>
    /\ screen = {<<0, 0>>}
    /\ err = "none"
    /\ loop_body(curr_xy, seed, screen, -1).curr_xy = <<1, 0>>
    /\ loop_body(curr_xy, seed, screen, 120).seed = seed

\* C18: once the Board is built, and through every tick, game.board has
\* exactly rows rows of exactly cols cells, each DEAD or ALIVE, and the
\* Board's rows and cols stay those it was built with.
C18_BoardShape ==
    pc \in {"loop", "cells", "commit", "exited"} =>
        /\ game.rows = rows
        /\ game.cols = cols
        /\ Len(game.board) = rows
        /\ \A r \in 1..Len(game.board) :
              /\ game.board[r] \in DOMAIN heap
              /\ Len(heap[game.board[r]]) = cols
              /\ \A c \in 1..Len(heap[game.board[r]]) :
                    heap[game.board[r]][c] \in {DEAD, ALIVE}

\* A 2 x 3 board with living cells after two ticks.
C18_Witness ==
    /\ pc = "loop"
    /\ ticks_done >= 2
    /\ rows = 2 /\ cols = 3
    /\ AliveCells(game, heap) # {}
    /\ Len(game.board) = 2
    /\ Len(heap[game.board[1]]) = 3

\* C19: an interrupt can arrive in every state of the seeding loop and of
\* the simulation loop; it ends the process with exit code 0, no further
\* tick and no score; a normal game over ends with exit code 0 and the
\* score printed.
C19_InterruptExitsClean ==
    /\ [](pc \in {"seeding", "loop", "cells", "commit"} => ENABLED Interrupt)
    /\ [][/\ (pc # "interrupted" /\ pc' = "interrupted") =>
                /\ exit_code' = 0
                /\ score = -1 /\ score' = -1
                /\ counter' = counter
                /\ ticks_done' = ticks_done
          /\ pc = "interrupted" =>
                /\ pc' = "interrupted"
                /\ <<counter', ticks_done', score', exit_code'>> =
                       <<counter, ticks_done, score, exit_code>>
          /\ (pc # "exited" /\ pc' = "exited") =>
                /\ exit_code' = 0
                /\ score' = counter
                /\ score' >= 1]_vars

\* Interrupted in the middle of the second tick.
C19_Witness ==
    /\ pc = "interrupted"
    /\ exit_code = 0
    /\ score = -1
    /\ counter = 2
    /\ ticks_done = 1

\* The classic rule B3/S23: born on three, surviving on two or three.
Classic(was, n) == IF n = 3 \/ (was = ALIVE /\ n = 2) THEN ALIVE ELSE DEAD

\* C20: the tick computes the classic rule B3/S23 on the bounded grid: a
\* cell is ALIVE after the tick iff it had exactly 3 living neighbours
\* before it, or was ALIVE with exactly 2; the three branches of main and
\* the classic rule agree on every cell value and neighbour count.
C20_ClassicRule ==
    /\ \A item \in {DEAD, ALIVE}, n \in 0..8 :
          next_cell(item, n).cell = Classic(item, n)
    /\ (pc = "loop" /\ ticks_done >= 1) =>
          \A xy \in GridCells(pre_tick) :
              CellAt(game, heap, xy[1], xy[2]) =
                  Classic(GridCell(pre_tick, xy), LiveCount(pre_tick, xy))

\* A tick in which one living cell stayed on three neighbours, another on
\* two, and a dead cell with two neighbours stayed dead.
C20_Witness ==
    /\ pc = "loop"
    /\ ticks_done >= 1
    /\ \E a, b, d \in GridCells(pre_tick) :
          /\ GridCell(pre_tick, a) = ALIVE /\ LiveCount(pre_tick, a) = 3
          /\ CellAt(game, heap, a[1], a[2]) = ALIVE
          /\ GridCell(pre_tick, b) = ALIVE /\ LiveCount(pre_tick, b) = 2
          /\ CellAt(game, heap, b[1], b[2]) = ALIVE
          /\ GridCell(pre_tick, d) = DEAD /\ LiveCount(pre_tick, d) = 2
          /\ CellAt(game, heap, d[1], d[2]) = DEAD

====
